---------------------------- MODULE Spec2Model ----------------------------
(***************************************************************************)
(* State-vector quantum circuit simulator (quantum_simulator crate):       *)
(* QuantumCircuit (circuit.rs) and the gate catalog (gates.rs).            *)
(*                                                                         *)
(* Numbers.  The program computes with Complex<f64>.  The model computes   *)
(* exactly: a real number is an element p + q*sqrt(2) of Z[sqrt 2],        *)
(* written <<p, q>>; a complex number is [re, im] of two such reals.  The  *)
(* irrational factors the program divides by (1/sqrt(2) in H, T and        *)
(* Rotation(pi/4); sqrt(prob) in measure) are kept as one divisor per      *)
(* vector: a state [amp, den] stands for the amplitudes amp[i]/sqrt(den),  *)
(* and a gate matrix [m, s] for the entries m[r][c]/s.  Floating-point     *)
(* rounding is not modelled.                                               *)
(***************************************************************************)
EXTENDS Integers, Sequences, FiniteSets, TLC

\* ------------------------------------------------------------------ bounds

\* Largest qubit count handed to new(); 0 is always tried as well.
MaxQubits == 2

\* Number of engine calls made on a circuit after its construction.
MaxOps == 2

\* ------------------------------------------------- reals p + q*sqrt(2)

RZero == <<0, 0>>
ROne == <<1, 0>>
RTwo == <<2, 0>>
RSqrt2 == <<0, 1>>

RAdd(x, y) == <<x[1] + y[1], x[2] + y[2]>>
RNeg(x) == <<-x[1], -x[2]>>
RSub(x, y) == RAdd(x, RNeg(y))
RMul(x, y) == <<x[1] * y[1] + 2 * x[2] * y[2], x[1] * y[2] + x[2] * y[1]>>
RInt(k) == <<k, 0>>

\* p + q*sqrt(2) > 0, decided on integers.
RPos(x) ==
    \/ x[1] >= 0 /\ x[2] >= 0 /\ (x[1] > 0 \/ x[2] > 0)
    \/ x[1] > 0 /\ x[2] < 0 /\ x[1] * x[1] > 2 * x[2] * x[2]
    \/ x[1] < 0 /\ x[2] > 0 /\ 2 * x[2] * x[2] > x[1] * x[1]

\* x < y
RLess(x, y) == RPos(RSub(y, x))

\* ------------------------------------------------------ complex numbers

\* Complex::new(re, im)
Cx(re, im) == [re |-> re, im |-> im]
CZero == Cx(RZero, RZero)
COne == Cx(ROne, RZero)
CNegOne == Cx(RNeg(ROne), RZero)
CI == Cx(RZero, ROne)
CNegI == Cx(RZero, RNeg(ROne))

CAdd(a, b) == Cx(RAdd(a.re, b.re), RAdd(a.im, b.im))
CMul(a, b) ==
    Cx(RSub(RMul(a.re, b.re), RMul(a.im, b.im)),
       RAdd(RMul(a.re, b.im), RMul(a.im, b.re)))
\* a complex number times a real
CScale(a, x) == Cx(RMul(a.re, x), RMul(a.im, x))

\* Complex::norm_sqr: re^2 + im^2
norm_sqr(a) == RAdd(RMul(a.re, a.re), RMul(a.im, a.im))

\* ----------------------------------------------------------- bit masks

\* 1 << k
Shl1(k) == 2 ^ k

\* (i & (1 << k)) != 0
BitSet(i, k) == (i \div Shl1(k)) % 2 = 1

\* i + (1 << k) in place of i | (1 << k)
OrBit_adds(i, k) == i + Shl1(k)

\* i | (1 << k)
OrBit(i, k) == IF BitSet(i, k) THEN i ELSE i + Shl1(k)

\* i & !(1 << k)
AndNotBit(i, k) == IF BitSet(i, k) THEN i - Shl1(k) ELSE i

\* ------------------------------------------------------- gate catalog

\* RotationGate.theta, in units of pi/4: cos and sin of k*pi/4 multiplied by
\* the matrix divisor (1 for even k, sqrt 2 for odd k).
RotCos(k) ==
    CASE k % 8 = 0 -> ROne
      [] k % 8 = 1 -> ROne
      [] k % 8 = 2 -> RZero
      [] k % 8 = 3 -> RNeg(ROne)
      [] k % 8 = 4 -> RNeg(ROne)
      [] k % 8 = 5 -> RNeg(ROne)
      [] k % 8 = 6 -> RZero
      [] OTHER -> ROne

RotSin(k) ==
    CASE k % 8 = 0 -> RZero
      [] k % 8 = 1 -> ROne
      [] k % 8 = 2 -> ROne
      [] k % 8 = 3 -> ROne
      [] k % 8 = 4 -> RZero
      [] k % 8 = 5 -> RNeg(ROne)
      [] k % 8 = 6 -> RNeg(ROne)
      [] OTHER -> RNeg(ROne)

XGate == [name |-> "Pauli-X", theta |-> 0]
YGate == [name |-> "Pauli-Y", theta |-> 0]
ZGate == [name |-> "Pauli-Z", theta |-> 0]
HadamardGate == [name |-> "Hadamard", theta |-> 0]
PhaseGate == [name |-> "Phase", theta |-> 0]
TGate == [name |-> "T", theta |-> 0]
\* RotationGate::new(theta), theta = k*pi/4
RotationGate(k) == [name |-> "Rotation", theta |-> k]

\* The rotation angles tried, in units of pi/4.
Thetas == {1, 2}

Gates ==
    {XGate, YGate, ZGate, HadamardGate, PhaseGate, TGate}
        \cup {RotationGate(k) : k \in Thetas}

\* Matrix2::new(m11, m12, m21, m22) (row-major), each entry divided by s.
Matrix2(m11, m12, m21, m22, s) ==
    [m |-> <<<<m11, m12>>, <<m21, m22>>>>, s |-> s]

\* The catalog with a Hadamard matrix whose entries are all 1/sqrt 2.
matrix_hadamard_no_minus(gate) ==
    CASE gate.name = "Pauli-X" -> Matrix2(CZero, COne, COne, CZero, ROne)
      [] gate.name = "Pauli-Y" -> Matrix2(CZero, CNegI, CI, CZero, ROne)
      [] gate.name = "Pauli-Z" -> Matrix2(COne, CZero, CZero, CNegOne, ROne)
      [] gate.name = "Hadamard" -> Matrix2(COne, COne, COne, COne, RSqrt2)
      [] gate.name = "Phase" -> Matrix2(COne, CZero, CZero, CI, ROne)
      [] gate.name = "T" ->
            Matrix2(Cx(RSqrt2, RZero), CZero, CZero, Cx(ROne, ROne), RSqrt2)
      [] OTHER ->
            Matrix2(Cx(RotCos(gate.theta), RZero),
                    Cx(RNeg(RotSin(gate.theta)), RZero),
                    Cx(RotSin(gate.theta), RZero),
                    Cx(RotCos(gate.theta), RZero),
                    IF gate.theta % 2 = 0 THEN ROne ELSE RSqrt2)

\* The catalog with a Hadamard matrix that is not divided by sqrt 2.
matrix_hadamard_unscaled(gate) ==
    CASE gate.name = "Pauli-X" -> Matrix2(CZero, COne, COne, CZero, ROne)
      [] gate.name = "Pauli-Y" -> Matrix2(CZero, CNegI, CI, CZero, ROne)
      [] gate.name = "Pauli-Z" -> Matrix2(COne, CZero, CZero, CNegOne, ROne)
      [] gate.name = "Hadamard" -> Matrix2(COne, COne, COne, CNegOne, ROne)
      [] gate.name = "Phase" -> Matrix2(COne, CZero, CZero, CI, ROne)
      [] gate.name = "T" ->
            Matrix2(Cx(RSqrt2, RZero), CZero, CZero, Cx(ROne, ROne), RSqrt2)
      [] OTHER ->
            Matrix2(Cx(RotCos(gate.theta), RZero),
                    Cx(RNeg(RotSin(gate.theta)), RZero),
                    Cx(RotSin(gate.theta), RZero),
                    Cx(RotCos(gate.theta), RZero),
                    IF gate.theta % 2 = 0 THEN ROne ELSE RSqrt2)

\* QuantumGate::matrix of each catalog gate.
matrix(gate) ==
    CASE gate.name = "Pauli-X" -> Matrix2(CZero, COne, COne, CZero, ROne)
      [] gate.name = "Pauli-Y" -> Matrix2(CZero, CNegI, CI, CZero, ROne)
      [] gate.name = "Pauli-Z" -> Matrix2(COne, CZero, CZero, CNegOne, ROne)
      [] gate.name = "Hadamard" ->
            \* sqrt_2_inv = 1/sqrt(2): the entries 1, 1, 1, -1 over sqrt 2
            Matrix2(COne, COne, COne, CNegOne, RSqrt2)
      [] gate.name = "Phase" -> Matrix2(COne, CZero, CZero, CI, ROne)
      [] gate.name = "T" ->
            \* cos(pi/4) + i sin(pi/4) = (1 + i)/sqrt 2; 1 = sqrt 2/sqrt 2
            Matrix2(Cx(RSqrt2, RZero), CZero, CZero, Cx(ROne, ROne), RSqrt2)
      [] OTHER ->
            Matrix2(Cx(RotCos(gate.theta), RZero),
                    Cx(RNeg(RotSin(gate.theta)), RZero),
                    Cx(RotSin(gate.theta), RZero),
                    Cx(RotCos(gate.theta), RZero),
                    IF gate.theta % 2 = 0 THEN ROne ELSE RSqrt2)

\* apply_matrix panicking on vectors shorter than 2 only.
apply_matrix_panics_below_two(st) == Len(st) < 2

\* apply_matrix panics ("State vector must be 2-dimensional for single qubit
\* gates") when state.len() != 2.
apply_matrix_panics(st) == Len(st) # 2

\* apply_matrix: matrix * [state[0], state[1]] (the numerators; the result
\* is over the divisor matrix.s times the divisor of `state`).
apply_matrix(mat, st) ==
    <<CAdd(CMul(mat.m[1][1], st[1]), CMul(mat.m[1][2], st[2])),
      CAdd(CMul(mat.m[2][1], st[1]), CMul(mat.m[2][2], st[2]))>>

\* QuantumGate::apply of the catalog gates: apply_matrix(self.matrix(), state)
apply(gate, st) == apply_matrix(matrix(gate), st)

\* CNOTGate::apply_controlled on the vector `state` (state[k] of the code is
\* state[k + 1] here): a panic when state.len() != 4, else the clone of the
\* state with entries 2 and 3 exchanged when control == 1. `target` is not
\* read.
apply_controlled(state, control, target) ==
    IF Len(state) # 4
    THEN [panic |-> TRUE, state |-> state]
    ELSE [panic |-> FALSE,
          state |-> IF control = 1
                    THEN [state EXCEPT ![3] = state[4], ![4] = state[3]]
                    ELSE state]


\* ---------------------------------------------------- the state vector

\* DVector::from_element(len, Complex::new(0.0, 0.0))
ZeroVector(len) == [i \in 0 .. len - 1 |-> CZero]

\* state.len()
VLen(amp) == Cardinality(DOMAIN amp)

\* One and the same vector of amplitudes has the representations
\* [amp, den] and [amp * sqrt 2, den * 2]; Normal picks the one that cannot
\* be divided further, so that equal vectors are equal values.
RDivSqrt2(x) == <<x[2], x[1] \div 2>>
Halvable(st) ==
    /\ st.den # RZero
    /\ st.den[1] % 2 = 0 /\ st.den[2] % 2 = 0
    /\ \A i \in DOMAIN st.amp :
          st.amp[i].re[1] % 2 = 0 /\ st.amp[i].im[1] % 2 = 0

RECURSIVE Normal(_)
Normal(st) ==
    IF Halvable(st)
    THEN Normal([amp |-> [i \in DOMAIN st.amp |->
                             Cx(RDivSqrt2(st.amp[i].re), RDivSqrt2(st.amp[i].im))],
                 den |-> <<st.den[1] \div 2, st.den[2] \div 2>>])
    ELSE st

\* sum of norm_sqr over the indices below i (numerator; over den)
RECURSIVE SumNormSqr(_, _)
SumNormSqr(amp, i) ==
    IF i = 0 THEN RZero
    ELSE RAdd(SumNormSqr(amp, i - 1), norm_sqr(amp[i - 1]))

\* ------------------------------------------------------- QuantumCircuit

\* struct QuantumCircuit { state, n_qubits }
QuantumCircuit(state, n_qubits) == [state |-> state, n_qubits |-> n_qubits]

\* The value standing for a circuit that does not exist (before new, after
\* a panic in new).
NoCircuit == QuantumCircuit([amp |-> ZeroVector(0), den |-> ROne], 0)

\* new without the check of n_qubits == 0: new(0) returns a circuit.
new_unchecked(n) ==
    [panic |-> FALSE,
     self |-> QuantumCircuit(
                  [amp |-> [ZeroVector(Shl1(n)) EXCEPT ![0] = COne],
                   den |-> ROne],
                  n)]

\* new that sets the last amplitude instead of the first.
new_last_index(n) ==
    IF n = 0
    THEN [panic |-> TRUE, self |-> NoCircuit]
    ELSE [panic |-> FALSE,
          self |-> QuantumCircuit(
                       [amp |-> [ZeroVector(Shl1(n)) EXCEPT ![Shl1(n) - 1] = COne],
                        den |-> ROne],
                       n)]

\* QuantumCircuit::new
new(n) ==
    IF n = 0
    THEN [panic |-> TRUE, self |-> NoCircuit]
    ELSE [panic |-> FALSE,
          self |-> QuantumCircuit(
                       [amp |-> [ZeroVector(Shl1(n)) EXCEPT ![0] = COne],
                        den |-> ROne],
                       n)]

\* The loop of apply_gate pairing i with i + 1 whatever the target.
RECURSIVE ApplyGateLoop_adjacent(_, _, _, _, _)
ApplyGateLoop_adjacent(i, amp, new_state, gate, target) ==
    IF i = VLen(amp) THEN new_state
    ELSE IF BitSet(i, target)
    THEN ApplyGateLoop_adjacent(i + 1, amp, new_state, gate, target)
    ELSE LET i1 == i + 1
             target_state == apply(gate, <<amp[i], amp[i1]>>)
         IN  ApplyGateLoop_adjacent(i + 1, amp,
                                    [new_state EXCEPT ![i] = target_state[1],
                                                      ![i1] = target_state[2]],
                                    gate, target)

\* The loop of apply_gate, from index i on.
RECURSIVE ApplyGateLoop(_, _, _, _, _)
ApplyGateLoop(i, amp, new_state, gate, target) ==
    IF i = VLen(amp) THEN new_state
    ELSE IF BitSet(i, target)
    THEN ApplyGateLoop(i + 1, amp, new_state, gate, target)
    ELSE LET i1 == OrBit(i, target)
             target_state == apply(gate, <<amp[i], amp[i1]>>)
         IN  ApplyGateLoop(i + 1, amp,
                           [new_state EXCEPT ![i] = target_state[1],
                                             ![i1] = target_state[2]],
                           gate, target)

\* apply_gate that acts on qubit 0 whatever the target.
apply_gate_ignores_target(self, gate, target) ==
    IF target >= self.n_qubits
    THEN [self |-> self, result |-> "InvalidQubitIndex"]
    ELSE LET s == matrix(gate).s
             st == self.state
         IN  [self |-> QuantumCircuit(
                  Normal([amp |-> ApplyGateLoop(0, st.amp,
                                                ZeroVector(VLen(st.amp)),
                                                gate, 0),
                          den |-> RMul(st.den, RMul(s, s))]),
                  self.n_qubits),
              result |-> "Ok"]

\* QuantumCircuit::apply_gate
apply_gate(self, gate, target) ==
    IF target >= self.n_qubits
    THEN [self |-> self, result |-> "InvalidQubitIndex"]
    ELSE LET s == matrix(gate).s
             st == self.state
         IN  [self |-> QuantumCircuit(
                  Normal([amp |-> ApplyGateLoop(0, st.amp,
                                                ZeroVector(VLen(st.amp)),
                                                gate, target),
                          den |-> RMul(st.den, RMul(s, s))]),
                  self.n_qubits),
              result |-> "Ok"]

\* The loop of apply_controlled_gate acting where the control bit is 0.
RECURSIVE ApplyControlledLoop_control_zero(_, _, _, _, _, _)
ApplyControlledLoop_control_zero(i, amp, new_state, gate, control, target) ==
    IF i = VLen(amp) THEN new_state
    ELSE IF ~BitSet(i, control)
    THEN LET target_state ==
                 apply(gate, <<amp[AndNotBit(i, target)], amp[OrBit(i, target)]>>)
         IN  ApplyControlledLoop_control_zero(i + 1, amp,
                 [new_state EXCEPT ![AndNotBit(i, target)] = target_state[1],
                                   ![OrBit(i, target)] = target_state[2]],
                 gate, control, target)
    ELSE ApplyControlledLoop_control_zero(i + 1, amp, new_state, gate,
                                          control, target)

\* The loop of apply_controlled_gate, from index i on; new_state starts as
\* the clone of the state.
RECURSIVE ApplyControlledLoop(_, _, _, _, _, _)
ApplyControlledLoop(i, amp, new_state, gate, control, target) ==
    IF i = VLen(amp) THEN new_state
    ELSE IF BitSet(i, control)
    THEN LET target_state ==
                 apply(gate, <<amp[AndNotBit(i, target)], amp[OrBit(i, target)]>>)
         IN  ApplyControlledLoop(i + 1, amp,
                 [new_state EXCEPT ![AndNotBit(i, target)] = target_state[1],
                                   ![OrBit(i, target)] = target_state[2]],
                 gate, control, target)
    ELSE ApplyControlledLoop(i + 1, amp, new_state, gate, control, target)

\* apply_controlled_gate without the check of control == target.
apply_controlled_gate_no_equal_check(self, gate, control, target) ==
    IF control >= self.n_qubits \/ target >= self.n_qubits
    THEN [self |-> self, result |-> "InvalidQubitIndex"]
    ELSE LET s == matrix(gate).s
             st == self.state
             clone == [i \in DOMAIN st.amp |-> CScale(st.amp[i], s)]
         IN  [self |-> QuantumCircuit(
                  Normal([amp |-> ApplyControlledLoop(0, st.amp, clone, gate,
                                                      control, target),
                          den |-> RMul(st.den, RMul(s, s))]),
                  self.n_qubits),
              result |-> "Ok"]

\* QuantumCircuit::apply_controlled_gate.  The loop reads the old numerators
\* and writes results over the divisor s * sqrt(den); the clone it starts
\* from holds the old amplitudes written over that same divisor.
apply_controlled_gate(self, gate, control, target) ==
    IF control >= self.n_qubits \/ target >= self.n_qubits
    THEN [self |-> self, result |-> "InvalidQubitIndex"]
    ELSE IF control = target
    THEN [self |-> self, result |-> "ControlEqualsTarget"]
    ELSE LET s == matrix(gate).s
             st == self.state
             clone == [i \in DOMAIN st.amp |-> CScale(st.amp[i], s)]
         IN  [self |-> QuantumCircuit(
                  Normal([amp |-> ApplyControlledLoop(0, st.amp, clone, gate,
                                                      control, target),
                          den |-> RMul(st.den, RMul(s, s))]),
                  self.n_qubits),
              result |-> "Ok"]

\* The loop summing the amplitudes whose target bit is clear.
RECURSIVE ProbOneLoop_bit_clear(_, _, _, _)
ProbOneLoop_bit_clear(i, amp, target, prob_one) ==
    IF i = VLen(amp) THEN prob_one
    ELSE ProbOneLoop_bit_clear(i + 1, amp, target,
                               IF ~BitSet(i, target)
                               THEN RAdd(prob_one, norm_sqr(amp[i]))
                               ELSE prob_one)

\* The first loop of measure: prob_one (numerator; over the state's den).
RECURSIVE ProbOneLoop(_, _, _, _)
ProbOneLoop(i, amp, target, prob_one) ==
    IF i = VLen(amp) THEN prob_one
    ELSE ProbOneLoop(i + 1, amp, target,
                     IF BitSet(i, target)
                     THEN RAdd(prob_one, norm_sqr(amp[i]))
                     ELSE prob_one)

\* random <= prob_one
DrawBelow_or_equal(rnd, p1, den) ==
    ~RLess(RMul(RInt(rnd[2]), p1), RMul(RInt(rnd[1]), den))

\* random < prob_one, for random = rnd[1]/rnd[2] and prob_one = p1/den
DrawBelow(rnd, p1, den) ==
    RLess(RMul(RInt(rnd[1]), den), RMul(RInt(rnd[2]), p1))

\* The collapse keeping the amplitudes whose target bit differs from the
\* outcome.
RECURSIVE CollapseLoop_keep_other(_, _, _, _, _)
CollapseLoop_keep_other(i, amp, new_state, target, result) ==
    IF i = VLen(amp) THEN new_state
    ELSE CollapseLoop_keep_other(i + 1, amp,
                                 IF BitSet(i, target) # result
                                 THEN [new_state EXCEPT ![i] = amp[i]]
                                 ELSE new_state,
                                 target, result)

\* The second loop of measure: the collapse (numerators).
RECURSIVE CollapseLoop(_, _, _, _, _)
CollapseLoop(i, amp, new_state, target, result) ==
    IF i = VLen(amp) THEN new_state
    ELSE CollapseLoop(i + 1, amp,
                      IF BitSet(i, target) = result
                      THEN [new_state EXCEPT ![i] = amp[i]]
                      ELSE new_state,
                      target, result)

\* measure accepting target = n_qubits (target > n_qubits is refused).
measure_range_off_by_one(self, target, random) ==
    IF target > self.n_qubits
    THEN [self |-> self, result |-> "InvalidQubitIndex"]
    ELSE LET st == self.state
             p1 == ProbOneLoop(0, st.amp, target, RZero)
             result == DrawBelow(random, p1, st.den)
             norm2 == IF result THEN p1 ELSE RSub(st.den, p1)
         IN  [self |-> QuantumCircuit(
                  Normal([amp |-> CollapseLoop(0, st.amp,
                                               ZeroVector(VLen(st.amp)),
                                               target, result),
                          den |-> norm2]),
                  self.n_qubits),
              result |-> IF result THEN "true" ELSE "false"]

\* measure that divides by sqrt(prob_one) whatever the outcome.
measure_norm_prob_one(self, target, random) ==
    IF target >= self.n_qubits
    THEN [self |-> self, result |-> "InvalidQubitIndex"]
    ELSE LET st == self.state
             p1 == ProbOneLoop(0, st.amp, target, RZero)
             result == DrawBelow(random, p1, st.den)
         IN  [self |-> QuantumCircuit(
                  Normal([amp |-> CollapseLoop(0, st.amp,
                                               ZeroVector(VLen(st.amp)),
                                               target, result),
                          den |-> p1]),
                  self.n_qubits),
              result |-> IF result THEN "true" ELSE "false"]

\* measure that keeps the matching amplitudes without dividing them by norm.
measure_no_renormalise(self, target, random) ==
    IF target >= self.n_qubits
    THEN [self |-> self, result |-> "InvalidQubitIndex"]
    ELSE LET st == self.state
             p1 == ProbOneLoop(0, st.amp, target, RZero)
             result == DrawBelow(random, p1, st.den)
         IN  [self |-> QuantumCircuit(
                  Normal([amp |-> CollapseLoop(0, st.amp,
                                               ZeroVector(VLen(st.amp)),
                                               target, result),
                          den |-> st.den]),
                  self.n_qubits),
              result |-> IF result THEN "true" ELSE "false"]

\* QuantumCircuit::measure, with the sample `random` that rng.gen() returned.
\* norm^2 is prob_one or 1 - prob_one = (den - p1)/den, so the amplitudes
\* kept, amp[i]/sqrt(den)/norm, are amp[i] over sqrt(p1) or sqrt(den - p1).
\* A new divisor of 0 is the division by zero (NaN or Inf amplitudes).
measure(self, target, random) ==
    IF target >= self.n_qubits
    THEN [self |-> self, result |-> "InvalidQubitIndex"]
    ELSE LET st == self.state
             p1 == ProbOneLoop(0, st.amp, target, RZero)
             result == DrawBelow(random, p1, st.den)
             norm2 == IF result THEN p1 ELSE RSub(st.den, p1)
         IN  [self |-> QuantumCircuit(
                  Normal([amp |-> CollapseLoop(0, st.amp,
                                               ZeroVector(VLen(st.amp)),
                                               target, result),
                          den |-> norm2]),
                  self.n_qubits),
              result |-> IF result THEN "true" ELSE "false"]

\* reset that fills the vector with 0 and does not set state[0].
reset_fill_only(self) ==
    QuantumCircuit([amp |-> ZeroVector(VLen(self.state.amp)), den |-> ROne],
                   self.n_qubits)

\* QuantumCircuit::reset
reset(self) ==
    QuantumCircuit([amp |-> [ZeroVector(VLen(self.state.amp)) EXCEPT ![0] = COne],
                    den |-> ROne],
                   self.n_qubits)

\* x * 10^k < y, for x >= 0
RECURSIVE ScaledLess(_, _, _)
ScaledLess(x, y, k) ==
    IF x = RZero THEN RPos(y)
    ELSE IF ~RLess(x, y) THEN FALSE
    ELSE IF k = 0 THEN TRUE
    ELSE ScaledLess(RMul(RInt(10), x), y, k - 1)

RAbs(x) == IF RPos(x) THEN x ELSE RNeg(x)

\* The tolerance of verify_state is 10^-TolDigits.
TolDigits == 10

\* QuantumCircuit::verify_state: (sum - 1.0).abs() < 1e-10
verify_state(self) ==
    LET sum == SumNormSqr(self.state.amp, VLen(self.state.amp))
    IN  ScaledLess(RAbs(RSub(sum, self.state.den)), self.state.den, TolDigits)

\* QuantumCircuit::get_state: the view of the state vector
get_state(self) == self.state

\* n_qubits returning the length of the state vector.
n_qubits_returns_len(self) == VLen(self.state.amp)

\* QuantumCircuit::n_qubits
n_qubits(self) == self.n_qubits

\* get_probability squaring the real part only.
get_probability_re_only(self, basis_state) ==
    IF basis_state >= VLen(self.state.amp)
    THEN [result |-> "InvalidBasisIndex", num |-> RZero, den |-> ROne]
    ELSE [result |-> "Ok",
          num |-> RMul(self.state.amp[basis_state].re,
                       self.state.amp[basis_state].re),
          den |-> self.state.den]

\* QuantumCircuit::get_probability: the probability is num/den.
get_probability(self, basis_state) ==
    IF basis_state >= VLen(self.state.amp)
    THEN [result |-> "InvalidBasisIndex", num |-> RZero, den |-> ROne]
    ELSE [result |-> "Ok",
          num |-> norm_sqr(self.state.amp[basis_state]),
          den |-> self.state.den]

\* ----------------------------------------- what the loops index and hand on

\* The indices at which the loop of apply_gate reads self.state and writes
\* new_state: i and i1 for every i below len whose target bit is clear.
ApplyGateIndices(len, target) ==
    UNION {{i, OrBit(i, target)} :
               i \in {j \in 0 .. len - 1 : ~BitSet(j, target)}}

\* The vectors the loop of apply_gate hands to gate.apply:
\* vec![self.state[i], self.state[i1]]
ApplyGateHanded(amp, target) ==
    {<<amp[i], amp[OrBit(i, target)]>> :
         i \in {j \in 0 .. VLen(amp) - 1 : ~BitSet(j, target)}}

\* The indices at which the loop of apply_controlled_gate reads self.state
\* and writes new_state: i & !(1 << target) and i | (1 << target) for every
\* i below len whose control bit is set.
ApplyControlledIndices(len, control, target) ==
    UNION {{AndNotBit(i, target), OrBit(i, target)} :
               i \in {j \in 0 .. len - 1 : BitSet(j, control)}}

\* The vectors the loop of apply_controlled_gate hands to gate.apply.
ApplyControlledHanded(amp, control, target) ==
    {<<amp[AndNotBit(i, target)], amp[OrBit(i, target)]>> :
         i \in {j \in 0 .. VLen(amp) - 1 : BitSet(j, control)}}

\* The indices at which the two loops of measure read self.state and write
\* new_state: i in 0..n.
MeasureIndices(len) == 0 .. len - 1

\* norm * norm of measure, for the sample `random` (numerator; over the
\* state's den): prob_one when the outcome is true, 1 - prob_one when false.
MeasureNormSquared(self, target, random) ==
    LET p1 == ProbOneLoop(0, self.state.amp, target, RZero)
    IN  IF DrawBelow(random, p1, self.state.den)
        THEN p1
        ELSE RSub(self.state.den, p1)

\* ------------------------------------------------------------ the system

VARIABLES
    status,     \* "unbuilt", "ready" (a circuit exists), "panicked"
    circuit,    \* the QuantumCircuit
    prev,       \* the circuit before the latest call
    last,       \* the latest call: operation, arguments, result
    ops,        \* calls made on the circuit
    n_given,    \* the n_qubits handed to QuantumCircuit::new
    value,      \* what the latest query call returned
    twin,       \* a second run of the same calls: its circuit and outcome
    gate_call,  \* a gate called on a vector directly: vector and result
    env         \* the CartPole environment and what step returned

vars == <<status, circuit, prev, last, ops, n_given, value, twin, gate_call,
          env>>

\* The samples rng.gen() may return, as fractions in [0, 1).
Draws == {<<0, 1>>, <<1, 2>>, <<7, 8>>}

NoDraw == <<0, 1>>

Call(op, gate, control, target, random, result) ==
    [op |-> op, gate |-> gate, control |-> control, target |-> target,
     random |-> random, result |-> result]

\* No value returned: the probability 0/1.
NoValue == [num |-> RZero, den |-> ROne]

\* No second run.
NoTwin == [circuit |-> NoCircuit, result |-> "none", random |-> NoDraw]

\* No gate called on a vector yet. A vector is [v, div]: the entries are
\* v[k]/div.
NoGateCall ==
    [op |-> "none", gate |-> XGate, control |-> 0, target |-> 0,
     old |-> [v |-> <<>>, div |-> ROne],
     state |-> [v |-> <<>>, div |-> ROne],
     panic |-> FALSE, calls |-> 0]

\* No CartPole constructed yet. `self` is the CartPole, `k` counts the step
\* calls since the latest new or reset, and op, action, reward and done are
\* the latest call and what it returned.
NoEnv ==
    [built |-> FALSE,
     self |-> [current_step |-> 0, max_steps |-> 0, x |-> 0, theta |-> 0],
     k |-> 0, op |-> "none", action |-> 0, reward |-> 0, done |-> FALSE]

Init ==
    /\ status = "unbuilt"
    /\ circuit = NoCircuit
    /\ prev = NoCircuit
    /\ last = Call("none", XGate, 0, 0, NoDraw, "none")
    /\ ops = 0
    /\ n_given = 0
    /\ value = NoValue
    /\ twin = NoTwin
    /\ gate_call = NoGateCall
    /\ env = NoEnv

\* A call on the one circuit leaves the second run, the gate called on a
\* vector and the environment alone.
CircuitOnly == UNCHANGED <<twin, gate_call, env>>

\* QuantumCircuit::new(n); `target` of the call record holds n.
New(n) ==
    /\ status = "unbuilt"
    /\ \E c \in {new(n)} :
           /\ status' = IF c.panic THEN "panicked" ELSE "ready"
           /\ circuit' = c.self
           /\ last' = Call("new", XGate, 0, n, NoDraw,
                           IF c.panic THEN "panic" ELSE "Ok")
    /\ prev' = circuit
    /\ n_given' = n
    /\ value' = NoValue
    /\ UNCHANGED ops
    /\ CircuitOnly

ApplyGate(gate, target) ==
    /\ status = "ready" /\ ops < MaxOps
    /\ \E r \in {apply_gate(circuit, gate, target)} :
           /\ circuit' = r.self
           /\ last' = Call("apply_gate", gate, 0, target, NoDraw, r.result)
    /\ prev' = circuit
    /\ ops' = ops + 1
    /\ value' = NoValue
    /\ UNCHANGED <<status, n_given>>
    /\ CircuitOnly

ApplyControlledGate(gate, control, target) ==
    /\ status = "ready" /\ ops < MaxOps
    /\ \E r \in {apply_controlled_gate(circuit, gate, control, target)} :
           /\ circuit' = r.self
           /\ last' = Call("apply_controlled_gate", gate, control, target,
                           NoDraw, r.result)
    /\ prev' = circuit
    /\ ops' = ops + 1
    /\ value' = NoValue
    /\ UNCHANGED <<status, n_given>>
    /\ CircuitOnly

Measure(target, random) ==
    /\ status = "ready" /\ ops < MaxOps
    /\ \E r \in {measure(circuit, target, random)} :
           /\ circuit' = r.self
           /\ last' = Call("measure", XGate, 0, target, random, r.result)
    /\ prev' = circuit
    /\ ops' = ops + 1
    /\ value' = NoValue
    /\ UNCHANGED <<status, n_given>>
    /\ CircuitOnly

Reset ==
    /\ status = "ready" /\ ops < MaxOps
    /\ circuit' = reset(circuit)
    /\ last' = Call("reset", XGate, 0, 0, NoDraw, "Ok")
    /\ prev' = circuit
    /\ ops' = ops + 1
    /\ value' = NoValue
    /\ UNCHANGED <<status, n_given>>
    /\ CircuitOnly

\* The calls that take &self leave the circuit as it is.
GetState ==
    /\ status = "ready" /\ ops < MaxOps
    /\ value' = get_state(circuit)
    /\ last' = Call("get_state", XGate, 0, 0, NoDraw, "Ok")
    /\ prev' = circuit
    /\ ops' = ops + 1
    /\ UNCHANGED <<status, circuit, n_given>>
    /\ CircuitOnly

VerifyState ==
    /\ status = "ready" /\ ops < MaxOps
    /\ last' = Call("verify_state", XGate, 0, 0, NoDraw,
                    IF verify_state(circuit) THEN "true" ELSE "false")
    /\ value' = NoValue
    /\ prev' = circuit
    /\ ops' = ops + 1
    /\ UNCHANGED <<status, circuit, n_given>>
    /\ CircuitOnly

NQubits ==
    /\ status = "ready" /\ ops < MaxOps
    /\ value' = [num |-> RInt(n_qubits(circuit)), den |-> ROne]
    /\ last' = Call("n_qubits", XGate, 0, 0, NoDraw, "Ok")
    /\ prev' = circuit
    /\ ops' = ops + 1
    /\ UNCHANGED <<status, circuit, n_given>>
    /\ CircuitOnly

\* get_probability(basis_state); `target` of the call record holds
\* basis_state.
GetProbability(basis_state) ==
    /\ status = "ready" /\ ops < MaxOps
    /\ \E r \in {get_probability(circuit, basis_state)} :
           /\ value' = [num |-> r.num, den |-> r.den]
           /\ last' = Call("get_probability", XGate, 0, basis_state, NoDraw,
                           r.result)
    /\ prev' = circuit
    /\ ops' = ops + 1
    /\ UNCHANGED <<status, circuit, n_given>>
    /\ CircuitOnly

\* Qubit indices handed to the engine: the valid ones and one past them.
Indices == 0 .. MaxQubits

\* Basis indices handed to get_probability: the valid ones of the largest
\* circuit and one past them.
BasisIndices == 0 .. 2 ^ MaxQubits

Next ==
    \/ \E n \in 0 .. MaxQubits : New(n)
    \/ \E gate \in Gates, target \in Indices : ApplyGate(gate, target)
    \/ \E gate \in Gates, control \in Indices, target \in Indices :
           ApplyControlledGate(gate, control, target)
    \/ \E target \in Indices, random \in Draws : Measure(target, random)
    \/ Reset
    \/ GetState
    \/ VerifyState
    \/ NQubits
    \/ \E basis_state \in BasisIndices : GetProbability(basis_state)

Spec == Init /\ [][Next]_vars

\* ------------------------------------------- gates called on a vector

\* The entries and lengths of the vectors handed to the gates.
VectorEntries == {CZero, COne, CI}
VectorLens == 1 .. 4
Vectors == UNION {[1 .. len -> VectorEntries] : len \in VectorLens}

\* A call on a vector leaves the circuits and the environment alone.
VectorOnly ==
    UNCHANGED <<status, circuit, prev, last, ops, n_given, value, twin, env>>

\* DVector::from_vec(v)
FromVec(v) ==
    /\ gate_call.op = "none"
    /\ gate_call' = [NoGateCall EXCEPT !.op = "from_vec",
                                        !.old = [v |-> v, div |-> ROne],
                                        !.state = [v |-> v, div |-> ROne]]
    /\ VectorOnly

\* gate.apply(&mut state) of a catalog gate: the panic of apply_matrix, or
\* state[0] and state[1] overwritten with the product.
Apply(gate) ==
    /\ gate_call.op # "none" /\ ~gate_call.panic
    /\ gate_call.calls < MaxOps
    /\ LET st == gate_call.state
       IN  gate_call' =
               IF apply_matrix_panics(st.v)
               THEN [gate_call EXCEPT !.op = "apply", !.gate = gate,
                                      !.old = st, !.panic = TRUE,
                                      !.calls = @ + 1]
               ELSE LET result == apply(gate, st.v)
                    IN  [gate_call EXCEPT
                            !.op = "apply", !.gate = gate, !.old = st,
                            !.state = [v |-> [st.v EXCEPT ![1] = result[1],
                                                          ![2] = result[2]],
                                       div |-> RMul(st.div, matrix(gate).s)],
                            !.calls = @ + 1]
    /\ VectorOnly

\* CNOTGate.apply_controlled(&mut state, control, target)
ApplyControlled(control, target) ==
    /\ gate_call.op # "none" /\ ~gate_call.panic
    /\ gate_call.calls < MaxOps
    /\ LET st == gate_call.state
           r == apply_controlled(st.v, control, target)
       IN  gate_call' = [gate_call EXCEPT
                            !.op = "apply_controlled", !.gate = XGate,
                            !.control = control, !.target = target,
                            !.old = st,
                            !.state = [v |-> r.state, div |-> st.div],
                            !.panic = r.panic,
                            !.calls = @ + 1]
    /\ VectorOnly

NextGates ==
    \/ \E v \in Vectors : FromVec(v)
    \/ \E gate \in Gates : Apply(gate)
    \/ \E control \in {0, 1}, target \in {0, 1} :
           ApplyControlled(control, target)

GateSpec == Init /\ [][NextGates]_vars

\* ------------------------------------------------------------ CartPole

\* max_steps of CartPole::new()
DefaultMaxSteps == 500

\* The bounds of the cart position (2.4) and of the pole angle (0.209), in
\* thousandths.
XLimit == 2400
ThetaLimit == 209

\* Steps taken beyond max_steps.
MaxExtraSteps == 3

\* The cart positions and pole angles the physics step may leave, in
\* thousandths: inside the bounds, on them and beyond them.
Positions == {0 - XLimit - 1, 0 - XLimit, 0, XLimit, XLimit + 1}
Angles == {0 - ThetaLimit - 1, 0, ThetaLimit, ThetaLimit + 1}

\* CartPole::new(): the cart at x = 0, the pole upright.
CartPole_new ==
    [current_step |-> 0, max_steps |-> DefaultMaxSteps, x |-> 0, theta |-> 0]

\* CartPole::reset
CartPole_reset(self) ==
    [self EXCEPT !.x = 0, !.theta = 0, !.current_step = 0]

\* step that ends the episode only after max_steps is passed.
CartPole_step_after_max(self, action, x, theta) ==
    LET current_step == self.current_step + 1
        done == \/ x < 0 - XLimit
                \/ x > XLimit
                \/ theta < 0 - ThetaLimit
                \/ theta > ThetaLimit
                \/ current_step > self.max_steps
    IN  [self |-> [self EXCEPT !.current_step = current_step,
                               !.x = x, !.theta = theta],
         reward |-> IF ~done THEN 1 ELSE 0,
         done |-> done]

\* CartPole::step(action), where the physics step left the cart at x and the
\* pole at angle theta.
CartPole_step(self, action, x, theta) ==
    LET current_step == self.current_step + 1
        done == \/ x < 0 - XLimit
                \/ x > XLimit
                \/ theta < 0 - ThetaLimit
                \/ theta > ThetaLimit
                \/ current_step >= self.max_steps
    IN  [self |-> [self EXCEPT !.current_step = current_step,
                               !.x = x, !.theta = theta],
         reward |-> IF ~done THEN 1 ELSE 0,
         done |-> done]

\* A call on the environment leaves the circuits and the vector alone.
EnvOnly ==
    UNCHANGED <<status, circuit, prev, last, ops, n_given, value, twin,
                gate_call>>

EnvNew ==
    /\ ~env.built
    /\ env' = [NoEnv EXCEPT !.built = TRUE, !.self = CartPole_new,
                            !.op = "new"]
    /\ EnvOnly

EnvReset ==
    /\ env.built
    /\ env' = [env EXCEPT !.self = CartPole_reset(env.self), !.k = 0,
                          !.op = "reset", !.action = 0, !.reward = 0,
                          !.done = FALSE]
    /\ EnvOnly

EnvStep(action, x, theta) ==
    /\ env.built
    /\ env.self.current_step < env.self.max_steps + MaxExtraSteps
    /\ \E r \in {CartPole_step(env.self, action, x, theta)} :
           env' = [env EXCEPT !.self = r.self, !.k = @ + 1, !.op = "step",
                              !.action = action, !.reward = r.reward,
                              !.done = r.done]
    /\ EnvOnly

NextCartPole ==
    \/ EnvNew
    \/ EnvReset
    \/ \E action \in {0, 1}, x \in Positions, theta \in Angles :
           EnvStep(action, x, theta)

CartPoleSpec == Init /\ [][NextCartPole]_vars

\* ------------------------------------------- two runs of the same calls

\* The same calls are made on two circuits, `circuit` and `twin.circuit`.
\* measure takes the target only: each run draws its own sample from
\* rand::thread_rng(), which no argument of the call determines.
TwoRunsOnly == UNCHANGED <<value, gate_call, env>>

BothNew(n) ==
    /\ status = "unbuilt"
    /\ \E c \in {new(n)} :
           /\ status' = IF c.panic THEN "panicked" ELSE "ready"
           /\ circuit' = c.self
           /\ twin' = [circuit |-> c.self,
                       result |-> IF c.panic THEN "panic" ELSE "Ok",
                       random |-> NoDraw]
           /\ last' = Call("new", XGate, 0, n, NoDraw,
                           IF c.panic THEN "panic" ELSE "Ok")
    /\ prev' = circuit
    /\ n_given' = n
    /\ UNCHANGED ops
    /\ TwoRunsOnly

BothApplyGate(gate, target) ==
    /\ status = "ready" /\ ops < MaxOps
    /\ \E r \in {apply_gate(circuit, gate, target)},
          t \in {apply_gate(twin.circuit, gate, target)} :
           /\ circuit' = r.self
           /\ twin' = [circuit |-> t.self, result |-> t.result,
                       random |-> NoDraw]
           /\ last' = Call("apply_gate", gate, 0, target, NoDraw, r.result)
    /\ prev' = circuit
    /\ ops' = ops + 1
    /\ UNCHANGED <<status, n_given>>
    /\ TwoRunsOnly

BothApplyControlledGate(gate, control, target) ==
    /\ status = "ready" /\ ops < MaxOps
    /\ \E r \in {apply_controlled_gate(circuit, gate, control, target)},
          t \in {apply_controlled_gate(twin.circuit, gate, control, target)} :
           /\ circuit' = r.self
           /\ twin' = [circuit |-> t.self, result |-> t.result,
                       random |-> NoDraw]
           /\ last' = Call("apply_controlled_gate", gate, control, target,
                           NoDraw, r.result)
    /\ prev' = circuit
    /\ ops' = ops + 1
    /\ UNCHANGED <<status, n_given>>
    /\ TwoRunsOnly

BothMeasure(target) ==
    /\ status = "ready" /\ ops < MaxOps
    /\ \E random \in Draws, other \in Draws :
           \E r \in {measure(circuit, target, random)},
              t \in {measure(twin.circuit, target, other)} :
               /\ circuit' = r.self
               /\ twin' = [circuit |-> t.self, result |-> t.result,
                           random |-> other]
               /\ last' = Call("measure", XGate, 0, target, random, r.result)
    /\ prev' = circuit
    /\ ops' = ops + 1
    /\ UNCHANGED <<status, n_given>>
    /\ TwoRunsOnly

BothReset ==
    /\ status = "ready" /\ ops < MaxOps
    /\ circuit' = reset(circuit)
    /\ twin' = [circuit |-> reset(twin.circuit), result |-> "Ok",
                random |-> NoDraw]
    /\ last' = Call("reset", XGate, 0, 0, NoDraw, "Ok")
    /\ prev' = circuit
    /\ ops' = ops + 1
    /\ UNCHANGED <<status, n_given>>
    /\ TwoRunsOnly

NextTwoRuns ==
    \/ \E n \in 0 .. MaxQubits : BothNew(n)
    \/ \E gate \in Gates, target \in Indices : BothApplyGate(gate, target)
    \/ \E gate \in Gates, control \in Indices, target \in Indices :
           BothApplyControlledGate(gate, control, target)
    \/ \E target \in Indices : BothMeasure(target)
    \/ BothReset

TwoRunsSpec == Init /\ [][NextTwoRuns]_vars

\* ------------------------------------------------ comparing amplitudes

\* Complex conjugate.
CConj(a) == Cx(a.re, RNeg(a.im))

\* a/sqrt(d) = b/sqrt(e) for divisors d, e > 0: the two have the same
\* direction (a * conj(b) is real and not negative) and the same squared
\* magnitude.
AmpEq(a, d, b, e) ==
    LET ab == CMul(a, CConj(b))
    IN  /\ ab.im = RZero
        /\ ab.re = RZero \/ RPos(ab.re)
        /\ RMul(norm_sqr(a), e) = RMul(norm_sqr(b), d)

\* The vectors amp/sqrt(d) and other/sqrt(e) are equal.
VecEq(amp, d, other, e) ==
    /\ DOMAIN amp = DOMAIN other
    /\ \A i \in DOMAIN amp : AmpEq(amp[i], d, other[i], e)

\* The basis state |k> of n qubits.
Basis(n, k) == [amp |-> [i \in 0 .. 2 ^ n - 1 |-> IF i = k THEN COne ELSE CZero],
                den |-> ROne]

\* The latest call was `op` and returned `result`.
Did(op, result) == last.op = op /\ last.result = result

\* ----------------------------------------------------------------- claims

\* sum of get_probability(i).num for the indices i below k
RECURSIVE SumProbability(_, _)
SumProbability(self, k) ==
    IF k = 0 THEN RZero
    ELSE RAdd(SumProbability(self, k - 1), get_probability(self, k - 1).num)

\* C1: in every state a circuit can reach by apply_gate,
\* apply_controlled_gate, measure and reset calls with catalog gates, the
\* squared magnitudes of the amplitudes sum to 1: verify_state() is true and
\* the probabilities get_probability(i) of all basis indices sum to 1.
C1_Normalization ==
    status = "ready" =>
        /\ verify_state(circuit)
        /\ RPos(circuit.state.den)
        /\ SumProbability(circuit, 2 ^ circuit.n_qubits) = circuit.state.den

\* C1 witness: a measurement has collapsed a superposition of two qubits.
C1_Witness ==
    /\ status = "ready" /\ Did("measure", "true")
    /\ circuit.n_qubits = 2
    /\ circuit.state # prev.state
    /\ verify_state(circuit)

C3_NewInitialState ==
    (last.op = "new" /\ last.target >= 1) =>
        /\ Did("new", "Ok") /\ status = "ready"
        /\ circuit.n_qubits = last.target
        /\ DOMAIN circuit.state.amp = 0 .. 2 ^ last.target - 1
        /\ circuit.state.den = ROne
        /\ circuit.state.amp[0] = Cx(<<1, 0>>, <<0, 0>>)
        /\ \A i \in 1 .. 2 ^ last.target - 1 :
               circuit.state.amp[i] = Cx(<<0, 0>>, <<0, 0>>)

\* C3 witness: new(MaxQubits) returned a circuit.
C3_Witness == Did("new", "Ok") /\ circuit.n_qubits >= 2

\* Bit t of the basis index j, and j with that bit cleared.
Bit(j, t) == (j \div 2 ^ t) % 2
Others(j, t) == j - Bit(j, t) * 2 ^ t

\* Entry (j, k) of the operator I x ... x Gate x ... x I, the gate (matrix
\* numerators m) sitting at qubit t.
TensorEntry(m, t, j, k) ==
    IF Others(j, t) = Others(k, t) THEN m[Bit(j, t) + 1][Bit(k, t) + 1] ELSE CZero

\* Row j of that operator times the vector amp, summed over the columns
\* below k.
RECURSIVE TensorRow(_, _, _, _, _)
TensorRow(m, t, amp, j, k) ==
    IF k = 0 THEN CZero
    ELSE CAdd(TensorRow(m, t, amp, j, k - 1),
              CMul(TensorEntry(m, t, j, k - 1), amp[k - 1]))

\* C4: a successful apply_gate(gate, target) replaces the state by the
\* tensor-product operator I x ... x Gate x ... x I applied to the old
\* state: each pair (i, i1 = i | 1 << target) with the target bit of i clear
\* becomes the gate's matrix times the old pair; X moves the amplitude of
\* every basis index i to i XOR 2^target.
C4_ApplyGateIsTensorProduct ==
    Did("apply_gate", "Ok") =>
        LET t == last.target
            mat == matrix(last.gate)
            old == prev.state
            new_ == circuit.state
            d == RMul(old.den, RMul(mat.s, mat.s))
        IN  /\ t < prev.n_qubits
            /\ DOMAIN new_.amp = DOMAIN old.amp
            /\ \A j \in DOMAIN old.amp :
                   AmpEq(new_.amp[j], new_.den,
                         TensorRow(mat.m, t, old.amp, j, 2 ^ prev.n_qubits), d)
            /\ \A i \in DOMAIN old.amp :
                   Bit(i, t) = 0 =>
                       LET i1 == i + 2 ^ t
                       IN  /\ AmpEq(new_.amp[i], new_.den,
                                    CAdd(CMul(mat.m[1][1], old.amp[i]),
                                         CMul(mat.m[1][2], old.amp[i1])), d)
                           /\ AmpEq(new_.amp[i1], new_.den,
                                    CAdd(CMul(mat.m[2][1], old.amp[i]),
                                         CMul(mat.m[2][2], old.amp[i1])), d)
            /\ last.gate = XGate =>
                   \A i \in DOMAIN old.amp :
                       AmpEq(new_.amp[i + (1 - 2 * Bit(i, t)) * 2 ^ t], new_.den,
                             old.amp[i], old.den)

\* C4 witness: H was applied to qubit 1 of a two-qubit circuit that was not
\* in a basis state.
C4_Witness ==
    /\ Did("apply_gate", "Ok") /\ last.gate = HadamardGate /\ last.target = 1
    /\ circuit.n_qubits = 2
    /\ prev.state.den # ROne

\* C5: a successful apply_controlled_gate(gate, control, target) leaves the
\* amplitude of every basis index whose control bit is 0 unchanged and turns
\* each pair (i & ~(1 << target), i | (1 << target)) whose control bit is 1
\* into the gate's matrix times the old pair, once.  On two qubits, X with
\* control 0 and target 1 leaves |00> alone and moves index 1 to index 3.
C5_ControlledGate ==
    Did("apply_controlled_gate", "Ok") =>
        LET t == last.target
            c == last.control
            mat == matrix(last.gate)
            old == prev.state
            new_ == circuit.state
            d == RMul(old.den, RMul(mat.s, mat.s))
        IN  /\ c < prev.n_qubits /\ t < prev.n_qubits /\ c # t
            /\ DOMAIN new_.amp = DOMAIN old.amp
            /\ \A i \in DOMAIN old.amp :
                   IF Bit(i, c) = 0
                   THEN AmpEq(new_.amp[i], new_.den, old.amp[i], old.den)
                   ELSE LET i0 == Others(i, t)
                            i1 == Others(i, t) + 2 ^ t
                        IN  /\ AmpEq(new_.amp[i0], new_.den,
                                     CAdd(CMul(mat.m[1][1], old.amp[i0]),
                                          CMul(mat.m[1][2], old.amp[i1])), d)
                            /\ AmpEq(new_.amp[i1], new_.den,
                                     CAdd(CMul(mat.m[2][1], old.amp[i0]),
                                          CMul(mat.m[2][2], old.amp[i1])), d)
            /\ (last.gate = XGate /\ c = 0 /\ t = 1 /\ old = Basis(2, 0)) =>
                   new_ = Basis(2, 0)
            /\ (last.gate = XGate /\ c = 0 /\ t = 1 /\ old = Basis(2, 1)) =>
                   new_ = Basis(2, 3)

\* C5 witness: after apply_gate(X, 0) on |00>, the controlled X with control
\* 0 and target 1 has moved the amplitude to index 3.
C5_Witness ==
    /\ Did("apply_controlled_gate", "Ok")
    /\ last.gate = XGate /\ last.control = 0 /\ last.target = 1
    /\ prev.state = Basis(2, 1)
    /\ circuit.state = Basis(2, 3)

\* Sum of norm_sqr(amp[i]) over the indices i below k whose bit t is b.
RECURSIVE SumWhere(_, _, _, _)
SumWhere(amp, t, b, k) ==
    IF k = 0 THEN RZero
    ELSE RAdd(SumWhere(amp, t, b, k - 1),
              IF Bit(k - 1, t) = b THEN norm_sqr(amp[k - 1]) ELSE RZero)

\* The probability (numerator over old.den) of the outcome measure returned.
ObservedProbability(old, t, outcome) ==
    LET p1 == SumWhere(old.amp, t, 1, Cardinality(DOMAIN old.amp))
    IN  IF outcome THEN p1 ELSE RSub(old.den, p1)

\* C6: measure(target), target < n, returns (r < p1) for the sample r, p1
\* being the sum of |amplitude|^2 over the indices whose target bit is 1;
\* afterwards the amplitudes whose target bit differs from the outcome are 0
\* and the others are their old values divided by sqrt(p1) (outcome true) or
\* sqrt(1 - p1) (outcome false).
C6_MeasureCollapse ==
    (last.op = "measure" /\ last.target < prev.n_qubits) =>
        LET t == last.target
            old == prev.state
            new_ == circuit.state
            p1 == SumWhere(old.amp, t, 1, 2 ^ prev.n_qubits)
            outcome == RLess(RMul(RInt(last.random[1]), old.den),
                             RMul(RInt(last.random[2]), p1))
            p == ObservedProbability(old, t, outcome)
        IN  /\ last.result = (IF outcome THEN "true" ELSE "false")
            /\ DOMAIN new_.amp = DOMAIN old.amp
            /\ RPos(p) /\ RPos(new_.den)
            /\ \A i \in DOMAIN old.amp :
                   IF (Bit(i, t) = 1) = outcome
                   THEN AmpEq(new_.amp[i], new_.den, old.amp[i], p)
                   ELSE new_.amp[i] = CZero

\* C6 witness: a measurement of qubit 1 returned false on a state in which
\* both outcomes were possible.
C6_Witness ==
    /\ Did("measure", "false") /\ last.target = 1
    /\ RPos(ObservedProbability(prev.state, 1, TRUE))
    /\ RPos(ObservedProbability(prev.state, 1, FALSE))

\* C7: measure never divides by zero: the probability of the outcome it
\* returns is never 0 (also when the other outcome's probability is exactly
\* 0), so the amplitudes it stores are finite.
C7_MeasureNeverDividesByZero ==
    (last.op = "measure" /\ last.result \in {"true", "false"}) =>
        /\ RPos(ObservedProbability(prev.state, last.target, last.result = "true"))
        /\ RPos(circuit.state.den)
        /\ status = "ready"

\* C7 witness: measure drew r = 0 on a state whose probability of outcome 1
\* is exactly 0.
C7_Witness ==
    /\ Did("measure", "false")
    /\ last.random = <<0, 1>>
    /\ ObservedProbability(prev.state, last.target, TRUE) = RZero

\* C8: apply_gate and measure with target >= n return InvalidQubitIndex and
\* leave the state vector and the qubit count as they were.
C8_TargetOutOfRange ==
    (last.op \in {"apply_gate", "measure"} /\ last.target >= prev.n_qubits) =>
        /\ last.result = "InvalidQubitIndex"
        /\ circuit = prev
        /\ status = "ready"

\* C8 witness: measure with an index out of range was called on a
\* superposition, which a measurement would have collapsed.
C8_Witness ==
    /\ Did("measure", "InvalidQubitIndex")
    /\ last.target >= circuit.n_qubits
    /\ circuit.state.den = RTwo

\* C9: apply_controlled_gate returns InvalidQubitIndex when control >= n or
\* target >= n, and the different error ControlEqualsTarget when control =
\* target with both in range; either way the state is unchanged and nothing
\* aborts.
C9_ControlledGateErrors ==
    last.op = "apply_controlled_gate" =>
        /\ (last.control >= prev.n_qubits \/ last.target >= prev.n_qubits) =>
               last.result = "InvalidQubitIndex"
        /\ (last.control < prev.n_qubits /\ last.target < prev.n_qubits
                /\ last.control = last.target) =>
               last.result = "ControlEqualsTarget"
        /\ last.result # "Ok" => circuit = prev
        /\ status = "ready"

\* C9 witness: control = target, both in range, on a two-qubit circuit.
C9_Witness ==
    /\ Did("apply_controlled_gate", "ControlEqualsTarget")
    /\ last.control = 1 /\ last.target = 1 /\ circuit.n_qubits = 2

\* C10: reset() leaves the state |0...0> whatever the state was, with the
\* qubit count and the vector length unchanged.
C10_Reset ==
    last.op = "reset" =>
        /\ circuit.state = Basis(prev.n_qubits, 0)
        /\ circuit.n_qubits = prev.n_qubits
        /\ DOMAIN circuit.state.amp = DOMAIN prev.state.amp
        /\ Cardinality(DOMAIN circuit.state.amp) = 2 ^ circuit.n_qubits

\* C10 witness: reset was called on a state other than |0...0>.
C10_Witness ==
    /\ Did("reset", "Ok")
    /\ prev.state # Basis(prev.n_qubits, 0)
    /\ prev.state.amp[0] = CZero


\* C11: X, Z and H are their own inverses: whenever apply_gate(X, target)
\* with target below n_qubits has been called on a state the circuit can
\* reach, calling it again gives back every amplitude the circuit had before
\* the first call, and so it is with apply_gate(Z, target) twice and
\* apply_gate(H, target) twice.
C11_SelfInverse ==
    (/\ status = "ready"
     /\ Did("apply_gate", "Ok")
     /\ last.gate \in {XGate, ZGate, HadamardGate}) =>
        \A again \in {apply_gate(circuit, last.gate, last.target)} :
            /\ again.result = "Ok"
            /\ VecEq(again.self.state.amp, again.self.state.den,
                     prev.state.amp, prev.state.den)

\* H(target) called twice on |0...0> of two qubits: the first call left a
\* superposition, the second gave |0...0> back.
C11_Witness ==
    /\ Did("apply_gate", "Ok") /\ last.gate = HadamardGate /\ ops = 2
    /\ circuit.n_qubits = 2
    /\ circuit.state = Basis(2, 0)
    /\ prev.state # Basis(2, 0)
    /\ prev.state = apply_gate(QuantumCircuit(Basis(2, 0), 2), HadamardGate,
                               last.target).self.state


\* measure(0) on the circuit returns `result` and leaves the basis state
\* |k> of one qubit, whatever the sample.
MeasuresTo(result, k) ==
    \A random \in Draws :
        \A r \in {measure(circuit, 0, random)} :
            r.result = result /\ r.self.state = Basis(1, k)

\* C12: with one qubit, measure(0) on |0> (the state new(1) leaves) returns
\* false for every sample and leaves amplitude 1 at index 0; after
\* apply_gate(X, 0) on |0>, measure(0) returns true for every sample and
\* leaves amplitude 1 at index 1.
C12_DeterministicMeasure ==
    (status = "ready" /\ circuit.n_qubits = 1) =>
        /\ circuit.state = Basis(1, 0) => MeasuresTo("false", 0)
        /\ (Did("apply_gate", "Ok") /\ last.gate = XGate
                /\ prev.state = Basis(1, 0)) => MeasuresTo("true", 1)
        /\ (last.op = "measure" /\ last.target = 0
                /\ prev.state = Basis(1, 0)) =>
               last.result = "false" /\ circuit.state = Basis(1, 0)
        /\ (last.op = "measure" /\ last.target = 0
                /\ prev.state = Basis(1, 1)) =>
               last.result = "true" /\ circuit.state = Basis(1, 1)

\* measure(0) with the largest sample on |1> of one qubit, the second call of
\* the run: it returned true and |1> is still the state.
C12_Witness ==
    /\ Did("measure", "true") /\ last.target = 0 /\ last.random = <<7, 8>>
    /\ ops = 2
    /\ circuit.n_qubits = 1
    /\ prev.state = Basis(1, 1)
    /\ circuit.state = Basis(1, 1)


\* The latest call was apply_gate(H, 0) on |0> of one qubit.
HadamardOnZero ==
    /\ status = "ready" /\ circuit.n_qubits = 1
    /\ Did("apply_gate", "Ok")
    /\ last.gate = HadamardGate /\ last.target = 0
    /\ prev.state = Basis(1, 0)

\* C15: with one qubit, after apply_gate(H, 0) on |0> both amplitudes equal
\* 1/sqrt 2 and get_probability(0) and get_probability(1) both return 0.5.
C15_Hadamard ==
    HadamardOnZero =>
        \A i \in {0, 1} :
            /\ AmpEq(circuit.state.amp[i], circuit.state.den, COne, RTwo)
            /\ LET p == get_probability(circuit, i)
               IN  p.result = "Ok" /\ RMul(RTwo, p.num) = p.den

\* The first call of a run on one qubit was apply_gate(H, 0).
C15_Witness ==
    /\ HadamardOnZero /\ ops = 1
    /\ circuit.state.amp[0] = circuit.state.amp[1]
    /\ circuit.state.amp[0] # CZero


\* C20: a measurement repeats: when measure(t) has returned an outcome b, a
\* measure(t) called next returns b again for every sample and leaves the
\* state vector as it was.
C20_MeasureRepeatable ==
    (status = "ready" /\ last.op = "measure"
        /\ last.result \in {"true", "false"}) =>
        \A random \in Draws :
            \A again \in {measure(circuit, last.target, random)} :
                /\ again.result = last.result
                /\ VecEq(again.self.state.amp, again.self.state.den,
                         circuit.state.amp, circuit.state.den)

\* measure(t) returned true on a state in which both outcomes had a
\* probability above 0, and measure(t) with the largest sample returns true
\* again.
C20_Witness ==
    /\ Did("measure", "true")
    /\ LET p1 == ProbOneLoop(0, prev.state.amp, last.target, RZero)
       IN  p1 # RZero /\ p1 # prev.state.den
    /\ circuit.state # prev.state
    /\ measure(circuit, last.target, <<7, 8>>).result = "true"


\* C14: get_probability(basis_state) returns the squared magnitude of the
\* amplitude at basis_state, a value in [0, 1], when basis_state < 2^n, and
\* the error InvalidBasisIndex when basis_state >= 2^n; in both cases the
\* circuit is left as it was.
C14_GetProbability ==
    (status = "ready" /\ last.op = "get_probability") =>
        /\ circuit = prev
        /\ IF last.target < 2 ^ circuit.n_qubits
           THEN /\ last.result = "Ok"
                /\ RPos(value.den)
                /\ RMul(value.num, circuit.state.den)
                       = RMul(norm_sqr(circuit.state.amp[last.target]),
                              value.den)
                /\ ~RLess(value.num, RZero)
                /\ ~RLess(value.den, value.num)
           ELSE last.result = "InvalidBasisIndex"

\* get_probability returned the probability, above 0, of an amplitude that
\* is not real, after an earlier call on a two-qubit circuit.
C14_Witness ==
    /\ Did("get_probability", "Ok") /\ ops = 2
    /\ circuit.n_qubits = 2
    /\ circuit.state.amp[last.target].im # RZero
    /\ RPos(value.num)

\* C17: the number of qubits is fixed at construction: after any sequence of
\* apply_gate, apply_controlled_gate, measure, reset and query calls, failed
\* ones included, n_qubits() returns the n handed to new and the state vector
\* has exactly 2^n amplitudes.
C17_QubitCountFixed ==
    status = "ready" =>
        /\ n_qubits(circuit) = n_given
        /\ VLen(get_state(circuit).amp) = 2 ^ n_given
        /\ last.op = "n_qubits" => value = [num |-> RInt(n_given), den |-> ROne]
        /\ last.op = "get_state" => VLen(value.amp) = 2 ^ n_given

\* n_qubits() called on a two-qubit circuit that an earlier call has moved
\* away from |00>.
C17_Witness ==
    /\ Did("n_qubits", "Ok") /\ ops = 2
    /\ n_given = 2
    /\ circuit.state # Basis(2, 0)
    /\ value.num = RInt(2)


\* The vector v/div as the amplitudes of a circuit.
AsState(vec) ==
    [amp |-> [i \in 0 .. Len(vec.v) - 1 |-> vec.v[i + 1]],
     den |-> RMul(vec.div, vec.div)]

\* Row r of matrix(gate) times the vector (numerators).
RowTimes(gate, r, v) ==
    CAdd(CMul(matrix(gate).m[r][1], v[1]), CMul(matrix(gate).m[r][2], v[2]))

\* C16: apply of every catalog gate needs a vector of exactly 2 elements:
\* with any other length it panics and leaves the vector as it was, and with
\* 2 elements it overwrites the vector in place with matrix() times the
\* vector.
C16_ApplyNeedsPair ==
    gate_call.op = "apply" =>
        IF Len(gate_call.old.v) # 2
        THEN gate_call.panic /\ gate_call.state = gate_call.old
        ELSE /\ ~gate_call.panic
             /\ Len(gate_call.state.v) = 2
             /\ \A r \in {1, 2} :
                    gate_call.state.v[r]
                        = RowTimes(gate_call.gate, r, gate_call.old.v)
             /\ gate_call.state.div
                    = RMul(gate_call.old.div, matrix(gate_call.gate).s)

\* XGate.apply on a vector of 3 elements panicked.
C16_Witness ==
    /\ gate_call.op = "apply" /\ gate_call.gate = XGate
    /\ Len(gate_call.old.v) = 3
    /\ gate_call.panic
    /\ gate_call.state = gate_call.old

\* C18: on a vector of 4 amplitudes, CNOTGate.apply_controlled with
\* (control, target) = (0, 1) and with (1, 0) gives the state that the
\* engine's apply_controlled_gate(X, control, target) gives on a two-qubit
\* circuit holding the same amplitudes.
C18_CnotMatchesEngine ==
    (/\ gate_call.op = "apply_controlled"
     /\ Len(gate_call.old.v) = 4
     /\ <<gate_call.control, gate_call.target>> \in {<<0, 1>>, <<1, 0>>}) =>
        LET engine == apply_controlled_gate(
                          QuantumCircuit(AsState(gate_call.old), 2), XGate,
                          gate_call.control, gate_call.target)
            cnot == AsState(gate_call.state)
        IN  /\ ~gate_call.panic
            /\ engine.result = "Ok"
            /\ VecEq(cnot.amp, cnot.den,
                     engine.self.state.amp, engine.self.state.den)


\* C13: measurement is reproducible: the random source is an input of
\* measure or of the engine, so that two runs making the same sequence of
\* calls get the same outcome from every call and hold the same state vector
\* after it; no outcome depends on a random state outside the calls.
C13_Reproducible ==
    status = "ready" =>
        /\ twin.result = last.result
        /\ twin.circuit = circuit


\* C19: a CartPole episode is bounded: the k-th step() after the latest
\* reset() or new() returns done = true whenever k >= 500, and so does every
\* later step until reset() is called; the reward is 0.0 exactly when done is
\* true and 1.0 otherwise; reset() sets the step counter to 0.
C19_EpisodeBounded ==
    env.built =>
        /\ (env.op = "step" /\ env.k >= 500) => env.done
        /\ env.op = "step" =>
               /\ env.reward = 0 <=> env.done
               /\ env.reward = 1 <=> ~env.done
        /\ env.op = "reset" => env.self.current_step = 0

\* Step 501 of an episode left the cart and the pole inside the bounds and
\* returned done with reward 0.
C19_Witness ==
    /\ env.op = "step" /\ env.k = 501
    /\ env.self.current_step = 501
    /\ env.self.x = 0 /\ env.self.theta = 0
    /\ env.done /\ env.reward = 0


\* C21: single-qubit gates on distinct qubits commute: whenever
\* apply_gate(G1, a) has been called on a state the circuit can reach, for
\* every catalog gate G2 and every target b below n_qubits other than a,
\* apply_gate(G2, b) called next gives the state vector that apply_gate(G2, b)
\* followed by apply_gate(G1, a) gives on the state before the first call.
C21_DistinctQubitsCommute ==
    (status = "ready" /\ Did("apply_gate", "Ok")) =>
        \A gate \in Gates, b \in 0 .. circuit.n_qubits - 1 :
            b # last.target =>
                \A first \in {apply_gate(circuit, gate, b)},
                   other \in {apply_gate(apply_gate(prev, gate, b).self,
                                         last.gate, last.target)} :
                    /\ first.result = "Ok" /\ other.result = "Ok"
                    /\ VecEq(first.self.state.amp, first.self.state.den,
                             other.self.state.amp, other.self.state.den)

\* apply_gate(H, a) was the second call on a two-qubit circuit that the
\* first call had moved away from |00>, and Y on the other qubit changes the
\* state and gives the same vector in either order.
C21_Witness ==
    /\ Did("apply_gate", "Ok") /\ last.gate = HadamardGate /\ ops = 2
    /\ circuit.n_qubits = 2
    /\ prev.state # Basis(2, 0)
    /\ circuit.state # prev.state
    /\ \E b \in {0, 1} :
           /\ b # last.target
           /\ apply_gate(circuit, YGate, b).self.state # circuit.state
           /\ apply_gate(circuit, YGate, b).self.state
                  = apply_gate(apply_gate(prev, YGate, b).self, HadamardGate,
                               last.target).self.state


\* Every index of the set is an index of the circuit's state vector.
InVector(indices) ==
    \A i \in indices : i >= 0 /\ i < 2 ^ circuit.n_qubits

\* C22: no engine operation with in-range arguments aborts: in every state
\* the circuit can reach, for apply_gate, apply_controlled_gate and measure
\* with all qubit indices below n (and control other than target), every
\* amplitude index read or written is below 2^n, every vector handed to
\* gate.apply has exactly 2 elements, so that apply_matrix does not panic,
\* and the divisor of measure, the square root of the probability of the
\* outcome chosen, is not 0; such a call returns without error and leaves a
\* circuit.
C22_NoAbortInRange ==
    status = "ready" =>
        /\ \A target \in 0 .. circuit.n_qubits - 1 :
               /\ InVector(ApplyGateIndices(VLen(circuit.state.amp), target))
               /\ \A v \in ApplyGateHanded(circuit.state.amp, target) :
                      Len(v) = 2 /\ ~apply_matrix_panics(v)
               /\ InVector(MeasureIndices(VLen(circuit.state.amp)))
               /\ \A random \in Draws :
                      RPos(MeasureNormSquared(circuit, target, random))
        /\ \A control \in 0 .. circuit.n_qubits - 1,
              target \in 0 .. circuit.n_qubits - 1 :
               control # target =>
                   /\ InVector(ApplyControlledIndices(
                                   VLen(circuit.state.amp), control, target))
                   /\ \A v \in ApplyControlledHanded(circuit.state.amp,
                                                     control, target) :
                          Len(v) = 2 /\ ~apply_matrix_panics(v)
        /\ (/\ last.op \in {"apply_gate", "measure"}
            /\ last.target < prev.n_qubits) =>
               last.result \in {"Ok", "true", "false"}
        /\ (/\ last.op = "apply_controlled_gate"
            /\ last.control < prev.n_qubits /\ last.target < prev.n_qubits
            /\ last.control # last.target) =>
               last.result = "Ok"

\* apply_controlled_gate with control 0 and target 1 returned Ok on a
\* two-qubit circuit in which qubit 0 was set, so the loop read and wrote the
\* last index, 3, and a measurement of qubit 1 with sample 0 would divide by
\* the square root of a probability above 0.
C22_Witness ==
    /\ Did("apply_controlled_gate", "Ok") /\ ops = 2
    /\ circuit.n_qubits = 2
    /\ last.control = 0 /\ last.target = 1
    /\ prev.state.amp[1] # CZero
    /\ circuit.state # prev.state
    /\ 3 \in ApplyControlledIndices(VLen(prev.state.amp), 0, 1)
    /\ RPos(MeasureNormSquared(circuit, 1, <<0, 1>>))

=============================================================================
